---- MODULE Spec2Model ----
(***************************************************************************)
(* Character-level text generation of the nlp-pytorch notebooks:           *)
(* the character vocabulary and enc, the window builder get_batch, the     *)
(* generator training loop, greedy generation (generate) and sampled       *)
(* generation (generate_soft).                                             *)
(*                                                                         *)
(* A Python str is a sequence of one-character strings; a symbol (a       *)
(* vocabulary entry) is a TLA+ string, one character long except for the   *)
(* specials "<unk>" and "<pad>".                                           *)
(***************************************************************************)
EXTENDS Integers, Sequences, FiniteSets, TLC

VARIABLES
  itos,        \* vocab.itos: the list of symbols, index = id (0-based id k at k+1)
  stoi,        \* vocab.stoi: the dictionary symbol -> id (a defaultdict, default 0)
  net,         \* the parameters of the LSTMGenerator instance
  rng,         \* state of the global torch random generator
  \* ---- get_batch called on its own
  gb_pc, gb_s, gb_w, gb_res,
  \* ---- the generator training loop
  tr_pc, dataset, tr_i, samples_to_train, text_in, text_out, tr_steps, printed,
  mb_src,      \* history: dataset index of the text the minibatch was built from
  \* ---- one generation call (generate / generate_soft)
  pc, kind, start, size, temperature, chars, out, s, i, result, err,
  calls,       \* history: the invocations of net made by the current call (input
               \* ids, state passed, and the logits row the input id was picked from)
  prev,        \* history: inputs and result of one earlier call
  \* ---- the vocabulary used on its own
  codec,       \* the last encode or decode call and what it returned or raised
  \* ---- generation calls running concurrently
  ctx,         \* per call: its position, arguments and local variables
  \* ---- the classifier helpers, each called on its own
  ep,          \* train_epoch: arguments, locals, position and history
  bow,         \* to_bow: the call and what it returned
  pad          \* pad_length: the call and what it returned

vars == <<itos, stoi, net, rng, gb_pc, gb_s, gb_w, gb_res,
          tr_pc, dataset, tr_i, samples_to_train, text_in, text_out, tr_steps, printed,
          mb_src,
          pc, kind, start, size, temperature, chars, out, s, i, result, err, calls, prev,
          codec, ctx, ep, bow, pad>>

vocabVars == <<itos, stoi>>
batchVars == <<gb_pc, gb_s, gb_w, gb_res>>
trainVars == <<tr_pc, dataset, tr_i, samples_to_train, text_in, text_out, tr_steps,
               printed, mb_src>>
genVars   == <<pc, kind, start, size, temperature, chars, out, s, i, result, err, calls, prev>>
callVars  == <<codec, ctx>>
sideVars  == <<ep, bow, pad>>

\* ------------------------------------------------------------------------
\* Bounds
\* ------------------------------------------------------------------------
MaxLen    == 4      \* longest text handed to get_batch on its own
MaxW      == 2      \* largest window size handed to get_batch on its own
MaxSeed   == 2      \* longest start string of a generation call
MaxSize   == 3      \* largest size of a generation call
NumHidden == 2      \* number of distinct hidden states of a modelled network
RngStates == 4      \* number of states of the modelled random generator
MaxTexts  == 4      \* largest number of texts in the training dataset
MaxLine   == 2      \* longest line of a corpus a vocabulary is built from
MaxBatch  == 2      \* largest number of samples in a batch of a data loader
MaxBatches == 3     \* largest number of batches a data loader yields
MaxEpoch  == 3      \* largest epoch_size handed to train_epoch
MaxItems  == 3      \* largest number of samples in a minibatch handed to pad_length

Min(a, b) == IF a < b THEN a ELSE b
Max(a, b) == IF a > b THEN a ELSE b

None == "None"
NoState == 0 - 1     \* s = None: no hidden state is passed to the network
NoIndex == 0 - 1

\* ------------------------------------------------------------------------
\* Characters and the character vocabulary
\* ------------------------------------------------------------------------
\* The characters of the modelled corpus, and "z", a character that occurs
\* in no corpus text (out of vocabulary).
CorpusChars == {"a", "b", " "}
Chars == CorpusChars \cup {"z"}

\* Code point order of the characters (Python compares str by code point).
CharOrd(c) == CASE c = " " -> 32 [] c = "a" -> 97 [] c = "b" -> 98 [] c = "z" -> 122
                [] OTHER -> 0

\* char_tokenizer(words) = list(words): the str as a list of 1-char symbols.
char_tokenizer(words) == words

\* collections.Counter over every line of the corpus.
RECURSIVE CountIn(_, _)
CountIn(line, c) ==
  IF line = <<>> THEN 0
  ELSE (IF Head(line) = c THEN 1 ELSE 0) + CountIn(Tail(line), c)

RECURSIVE CounterOf(_, _)
CounterOf(corpus, c) ==
  IF corpus = <<>> THEN 0
  ELSE CountIn(char_tokenizer(Head(corpus)), c) + CounterOf(Tail(corpus), c)

\* The characters of the corpus in the order the counter sees them, and the
\* position at which a character is seen first.
RECURSIVE Flat(_)
Flat(corpus) ==
  IF corpus = <<>> THEN <<>> ELSE char_tokenizer(Head(corpus)) \o Flat(Tail(corpus))

FirstSeen(corpus, c) ==
  CHOOSE k \in 1..Len(Flat(corpus)) :
    Flat(corpus)[k] = c /\ \A j \in 1..(k - 1) : Flat(corpus)[j] # c

\* Variant of VocabBefore: equally frequent symbols in first-seen order.
VocabBefore_firstseen(corpus, c, d) ==
  \/ CounterOf(corpus, c) > CounterOf(corpus, d)
  \/ /\ CounterOf(corpus, c) = CounterOf(corpus, d)
     /\ FirstSeen(corpus, c) < FirstSeen(corpus, d)

\* torchtext Vocab orders the counted symbols by descending frequency and,
\* among equally frequent symbols, by ascending symbol (sorted by symbol,
\* then stable-sorted by frequency).
VocabBefore(corpus, c, d) ==
  \/ CounterOf(corpus, c) > CounterOf(corpus, d)
  \/ CounterOf(corpus, c) = CounterOf(corpus, d) /\ CharOrd(c) < CharOrd(d)

RECURSIVE SortedSymbols(_, _)
SortedSymbols(corpus, rest) ==
  IF rest = {} THEN <<>>
  ELSE LET c == CHOOSE x \in rest : \A y \in rest \ {x} : VocabBefore(corpus, x, y)
       IN <<c>> \o SortedSymbols(corpus, rest \ {c})

\* vocab = torchtext.vocab.Vocab(counter): itos is the specials followed by
\* the counted symbols (min_freq = 1) in vocabulary order.
VocabItos(corpus, specials) ==
  specials \o SortedSymbols(corpus, {c \in Chars : CounterOf(corpus, c) >= 1})

\* stoi = defaultdict(unk_index) updated with {tok: i for i, tok in enumerate(itos)}.
VocabStoi(its) ==
  [sym \in {its[k] : k \in 1..Len(its)} |->
     (CHOOSE k \in 1..Len(its) : its[k] = sym /\ \A j \in 1..(k-1) : its[j] # sym) - 1]

unk_index == 0

\* The corpora (train_dataset texts) the vocabulary is built from.
CorpusA == << <<"a","a","b"," ">>, <<"a","b">> >>
CorpusB == << <<"b","b","a">>, <<"a">> >>

\* The specials argument of Vocab: the notebook passes the default
\* ('<unk>', '<pad>'); with the single special '<unk>' CorpusA gives the
\* vocabulary {<unk>:0, a:1, b:2, ' ':3} of the generator example.
DefaultSpecials == <<"<unk>", "<pad>">>
VocabChoices == {[corpus |-> CorpusB, specials |-> DefaultSpecials],
                 [corpus |-> CorpusA, specials |-> <<"<unk>">>]}

vocab_size == Len(itos)
Ids == 0..(vocab_size - 1)

\* Variant of StoiGet: a missing key gets the id after the default.
StoiGet_next(st, sym) == IF sym \in DOMAIN st THEN st[sym] ELSE unk_index + 1

\* vocab.stoi[sym]: a defaultdict lookup returns the default for a missing
\* key ...
StoiGet(st, sym) == IF sym \in DOMAIN st THEN st[sym] ELSE unk_index

\* Variant of StoiAfter: the missing key is stored with a fresh id instead
\* of the default.
RECURSIVE StoiAfter_fresh(_, _)
StoiAfter_fresh(st, toks) ==
  IF toks = <<>> THEN st
  ELSE LET sym == Head(toks)
           st1 == IF sym \in DOMAIN st THEN st
                  ELSE [x \in DOMAIN st \cup {sym} |-> IF x = sym THEN unk_index + 1 ELSE st[x]]
       IN StoiAfter_fresh(st1, Tail(toks))

\* ... and stores the default under that key.
RECURSIVE StoiAfter(_, _)
StoiAfter(st, toks) ==
  IF toks = <<>> THEN st
  ELSE LET sym == Head(toks)
           st1 == IF sym \in DOMAIN st THEN st
                  ELSE [x \in DOMAIN st \cup {sym} |-> IF x = sym THEN unk_index ELSE st[x]]
       IN StoiAfter(st1, Tail(toks))

\* encode(x): [vocab.stoi[s] for s in tokenizer(x)]
encode(st, x) == [k \in 1..Len(char_tokenizer(x)) |-> StoiGet(st, char_tokenizer(x)[k])]

\* enc(x) = torch.LongTensor(encode(x, voc=vocab, tokenizer=char_tokenizer))
enc(st, x) == encode(st, x)

\* Variant of ItosAt: itos[nc-1] (Python index -1 is the last element).
ItosAt_prev(its, nc) == IF nc = 0 THEN its[Len(its)] ELSE its[nc]

\* vocab.itos[nc] for a 0-based id nc
ItosAt(its, nc) == its[nc + 1]

\* Python slice x[a:b] for 0 <= a <= b: both ends are clipped to len(x).
PySlice(x, a, b) == SubSeq(x, Min(a, Len(x)) + 1, Min(b, Len(x)))

\* Variants of get_batch.
\* One iteration too many: range(len(s)-nchars+1).
get_batch_plus1(st, txt, w) ==
  LET n == Len(txt) - w + 1
      rows == 1..Max(n, 0)
      insRows  == [k \in rows |-> encode(st, PySlice(txt, k - 1, k - 1 + w))]
      outsRows == [k \in rows |-> encode(st, PySlice(txt, k, k + w))]
  IN  IF n < 0
        THEN [err |-> "RuntimeError", ins |-> <<>>, outs |-> <<>>, hi |-> 0]
      ELSE IF \E k \in rows : Len(insRows[k]) # w \/ Len(outsRows[k]) # w
        THEN [err |-> "RuntimeError", ins |-> <<>>, outs |-> <<>>, hi |-> n + w]
      ELSE [err |-> None, ins |-> insRows, outs |-> outsRows,
            hi |-> IF n = 0 THEN 0 ELSE n + w]

\* The outputs are not shifted: outs[i] = enc(s[i:i+nchars]).
get_batch_noshift(st, txt, w) ==
  LET n == Len(txt) - w
      rows == 1..Max(n, 0)
      insRows  == [k \in rows |-> encode(st, PySlice(txt, k - 1, k - 1 + w))]
      outsRows == [k \in rows |-> encode(st, PySlice(txt, k - 1, k - 1 + w))]
  IN  IF n < 0
        THEN [err |-> "RuntimeError", ins |-> <<>>, outs |-> <<>>, hi |-> 0]
      ELSE [err |-> None, ins |-> insRows, outs |-> outsRows,
            hi |-> IF n = 0 THEN 0 ELSE n - 1 + w]

\* The rows are filled from the last start position down to the first.
get_batch_reversed(st, txt, w) ==
  LET n == Len(txt) - w
      rows == 1..Max(n, 0)
      insRows  == [k \in rows |-> encode(st, PySlice(txt, n - k, n - k + w))]
      outsRows == [k \in rows |-> encode(st, PySlice(txt, n - k + 1, n - k + 1 + w))]
  IN  IF n < 0
        THEN [err |-> "RuntimeError", ins |-> <<>>, outs |-> <<>>, hi |-> 0]
      ELSE [err |-> None, ins |-> insRows, outs |-> outsRows,
            hi |-> IF n = 0 THEN 0 ELSE n + w]

\* The number of rows is clamped at zero: torch.zeros(max(0, len(s)-nchars), ...).
get_batch_clamped(st, txt, w) ==
  LET n == Max(Len(txt) - w, 0)
      rows == 1..n
      insRows  == [k \in rows |-> encode(st, PySlice(txt, k - 1, k - 1 + w))]
      outsRows == [k \in rows |-> encode(st, PySlice(txt, k, k + w))]
  IN  [err |-> None, ins |-> insRows, outs |-> outsRows,
       hi |-> IF n = 0 THEN 0 ELSE n + w]

\* ------------------------------------------------------------------------
\* get_batch
\* ------------------------------------------------------------------------
\* torch.zeros(n, w) raises RuntimeError for a negative dimension n.  Row i
\* of ins is enc(s[i:i+w]) and row i of outs is enc(s[i+1:i+w+1]); storing a
\* row whose length is not w raises RuntimeError.  hi is the largest slice
\* end the loop asks for.
get_batch(st, txt, w) ==
  LET n == Len(txt) - w
      rows == 1..Max(n, 0)
      insRows  == [k \in rows |-> enc(st, PySlice(txt, k - 1, k - 1 + w))]
      outsRows == [k \in rows |-> enc(st, PySlice(txt, k, k + w))]
  IN  IF n < 0
        THEN [err |-> "RuntimeError", ins |-> <<>>, outs |-> <<>>, hi |-> 0]
      ELSE IF \E k \in rows : Len(insRows[k]) # w \/ Len(outsRows[k]) # w
        THEN [err |-> "RuntimeError", ins |-> <<>>, outs |-> <<>>, hi |-> n + w]
      ELSE [err |-> None, ins |-> insRows, outs |-> outsRows,
            hi |-> IF n = 0 THEN 0 ELSE n + w]

\* The characters get_batch passes to enc (every row is encoded).
GetBatchTokens(txt, w) == IF Len(txt) - w >= 1 THEN txt ELSE <<>>

\* ------------------------------------------------------------------------
\* The network (LSTMGenerator)
\* ------------------------------------------------------------------------
\* A network is a deterministic map from (input id, hidden state) to
\* (logits, new hidden state).  Its hidden state is one of NumHidden values;
\* its parameters are the state update and one logits row for the even and
\* one for the odd hidden states.
HiddenStates == 0..(NumHidden - 1)
ZeroState == 0          \* the LSTM starts from the zero state when s is None

TransKinds == {"step", "input"}
RowKinds == {"peak0", "peak2", "tie12", "big2"}

BigLogit == 100
LowLogit == 0 - 120

\* A logits row over the ids 0..V-1 (as out[0][-1] holds it).
Row(rk, V) ==
  [j \in 0..(V - 1) |->
     CASE rk = "peak0" -> IF j = 0 THEN 1 ELSE 0
       [] rk = "peak2" -> IF j = 2 THEN 1 ELSE 0
       [] rk = "tie12" -> IF j \in {1, 2} THEN 0 ELSE LowLogit
       [] rk = "big2"  -> IF j = 2 THEN BigLogit ELSE 0]

Nets == [trans : TransKinds, even : RowKinds, odd : RowKinds]

\* self.rnn: the hidden state after consuming input id x in state h.
Trans(nt, h, x) ==
  CASE nt.trans = "step"  -> (h + 1) % NumHidden
    [] nt.trans = "input" -> (h + x) % NumHidden

\* self.fc: the logits computed from hidden state h.
Logits(nt, V, h) == Row(IF h % 2 = 0 THEN nt.even ELSE nt.odd, V)

\* forward(x, s): run the ids xs through the cell from state s0 (None: the
\* zero state); out holds one logits row per position, s the final state.
RECURSIVE StatesAfter(_, _, _)
StatesAfter(nt, h, xs) ==
  IF xs = <<>> THEN <<>>
  ELSE LET h1 == Trans(nt, h, Head(xs)) IN <<h1>> \o StatesAfter(nt, h1, Tail(xs))

forward(nt, V, xs, s0) ==
  LET h0 == IF s0 = NoState THEN ZeroState ELSE s0
      hs == StatesAfter(nt, h0, xs)
  IN  [out |-> [k \in 1..Len(xs) |-> Logits(nt, V, hs[k])],
       s   |-> IF xs = <<>> THEN h0 ELSE hs[Len(xs)]]

\* Variant of argmax: the index of the last maximal value.
argmax_last(row) ==
  CHOOSE j \in DOMAIN row :
    /\ \A k \in DOMAIN row : row[k] <= row[j]
    /\ \A k \in DOMAIN row : k > j => row[k] < row[j]

\* torch.argmax(row): the index of the first maximal value.
argmax(row) ==
  CHOOSE j \in DOMAIN row :
    /\ \A k \in DOMAIN row : row[k] <= row[j]
    /\ \A k \in DOMAIN row : k < j => row[k] < row[j]

\* ------------------------------------------------------------------------
\* Temperature, exp and multinomial
\* ------------------------------------------------------------------------
\* A temperature is the rational num/den.
Temperatures == {[num |-> 1, den |-> 2], [num |-> 1, den |-> 1], [num |-> 2, den |-> 1]}

\* float32 exp(x) is inf for x > 88.72 and 0 for x < -103.97 (in hundredths).
ExpOverflow100  == 8872
ExpUnderflow100 == 10397

\* out[0][-1].div(temperature).exp() for one logit, as the class of the
\* float32 result: "inf", "zero", "nan", or "pos" (finite and positive).
\* Division by 0.0 gives +inf, -inf or nan by the sign of the logit; a
\* negative temperature flips the sign of the quotient.
ExpDiv(logit, T) ==
  IF T.num = 0
    THEN (IF logit > 0 THEN "inf" ELSE IF logit < 0 THEN "zero" ELSE "nan")
  ELSE IF T.num > 0
    THEN (IF 100 * logit * T.den > ExpOverflow100 * T.num THEN "inf"
          ELSE IF 100 * logit * T.den < (0 - ExpUnderflow100) * T.num THEN "zero"
          ELSE "pos")
  ELSE (IF 100 * logit * T.den < ExpOverflow100 * T.num THEN "inf"
        ELSE IF 100 * logit * T.den > (0 - ExpUnderflow100) * T.num THEN "zero"
        ELSE "pos")

OutDist(row, T) == [j \in DOMAIN row |-> ExpDiv(row[j], T)]

Support(dist) == {j \in DOMAIN dist : dist[j] = "pos"}

\* torch.multinomial raises RuntimeError when a weight is inf or nan or
\* when the weights sum to zero.
MultinomialFails(dist) ==
  \/ \E j \in DOMAIN dist : dist[j] \in {"inf", "nan"}
  \/ Support(dist) = {}

\* Variant of multinomial: always the largest index of the support.
multinomial_last(dist, r) ==
  CHOOSE j \in Support(dist) : \A k \in Support(dist) : k <= j

\* The index drawn from generator state r: the support element of rank
\* r mod |support| ...
multinomial(dist, r) ==
  LET sup == Support(dist)
      rank == r % Cardinality(sup)
  IN  CHOOSE j \in sup : Cardinality({k \in sup : k < j}) = rank

\* ... and the generator state after the draw.
RngNext(r) == (r + 1) % RngStates

\* ''.join(chars): the characters of every symbol, in order.
SymbolChars(sym) ==
  CASE sym = "<unk>" -> <<"<", "u", "n", "k", ">">>
    [] sym = "<pad>" -> <<"<", "p", "a", "d", ">">>
    [] OTHER -> <<sym>>

RECURSIVE Join(_)
Join(cs) == IF cs = <<>> THEN <<>> ELSE SymbolChars(Head(cs)) \o Join(Tail(cs))

\* Variant of append: chars += sym, which extends the list by the
\* characters of sym.
append_extend(cs, sym) == cs \o SymbolChars(sym)

\* chars.append(sym)
append(cs, sym) == Append(cs, sym)

\* ------------------------------------------------------------------------
\* generate and generate_soft, one call at a time
\* ------------------------------------------------------------------------
AlphabetSeed == {"a", "z"}
Seeds == UNION {[1..n -> AlphabetSeed] : n \in 0..MaxSeed}
Sizes == 0..MaxSize

CallFree == pc = "idle"

\* chars = list(start); out, s = net(enc(chars).view(1,-1))
\* view(1,-1) of an empty tensor raises RuntimeError.
Prime(k, st, sz, T) ==
  LET f == forward(net, vocab_size, enc(stoi, st), NoState) IN
  /\ CallFree
  /\ kind' = k /\ start' = st /\ size' = sz /\ temperature' = T
  /\ chars' = st
  /\ stoi' = StoiAfter(stoi, st)
  /\ i' = 0
  /\ result' = <<>>
  /\ IF st = <<>>
       THEN /\ pc' = "failed" /\ err' = "RuntimeError"
            /\ out' = <<>> /\ s' = NoState /\ calls' = <<>>
       ELSE /\ pc' = "loop" /\ err' = None
            /\ out' = f.out /\ s' = f.s
            /\ calls' = << [x |-> enc(stoi, st), s |-> NoState, row |-> <<>>] >>
  /\ UNCHANGED <<itos, net, rng, prev>>
  /\ UNCHANGED batchVars /\ UNCHANGED trainVars /\ UNCHANGED callVars /\ UNCHANGED sideVars

\* A call of generate, of generate_soft, with a start string from SS.
GenerateOn(SS) == \E st \in SS, sz \in Sizes : Prime("greedy", st, sz, None)

GenerateSoftWith(SS, TT) ==
  \E st \in SS, sz \in Sizes, T \in TT : Prime("soft", st, sz, T)

GenerateSoftOn(SS) == GenerateSoftWith(SS, Temperatures)

Generate == GenerateOn(Seeds)

GenerateSoft == GenerateSoftOn(Seeds)

\* Variant of GreedyStep: the network is called without the state s.
GreedyStep_reset ==
  /\ pc = "loop" /\ kind = "greedy" /\ i < size
  /\ LET nc == argmax(out[Len(out)])
         f  == forward(net, vocab_size, <<nc>>, NoState)
     IN  /\ chars' = append(chars, ItosAt(itos, nc))
         /\ out' = f.out /\ s' = f.s
         /\ calls' = Append(calls, [x |-> <<nc>>, s |-> NoState, row |-> out[Len(out)]])
  /\ i' = i + 1
  /\ UNCHANGED <<pc, kind, start, size, temperature, result, err, prev>>
  /\ UNCHANGED <<itos, stoi, net, rng>>
  /\ UNCHANGED batchVars /\ UNCHANGED trainVars /\ UNCHANGED callVars /\ UNCHANGED sideVars

\* Variant of GreedyStep with a repetition penalty: an id that was fed to
\* the network in the step before is not picked again.
GreedyStep_penalty ==
  /\ pc = "loop" /\ kind = "greedy" /\ i < size
  /\ LET top == argmax(out[Len(out)])
         nc == IF i > 0 /\ calls[Len(calls)].x = <<top>>
                 THEN (top + 1) % vocab_size ELSE top
         f  == forward(net, vocab_size, <<nc>>, s)
     IN  /\ chars' = append(chars, ItosAt(itos, nc))
         /\ out' = f.out /\ s' = f.s
         /\ calls' = Append(calls, [x |-> <<nc>>, s |-> s, row |-> out[Len(out)]])
  /\ i' = i + 1
  /\ UNCHANGED <<pc, kind, start, size, temperature, result, err, prev>>
  /\ UNCHANGED <<itos, stoi, net, rng>>
  /\ UNCHANGED batchVars /\ UNCHANGED trainVars /\ UNCHANGED callVars /\ UNCHANGED sideVars

\* One iteration of generate's loop:
\*   nc = torch.argmax(out[0][-1]); chars.append(vocab.itos[nc])
\*   out, s = net(nc.view(1,-1), s)
GreedyStep ==
  /\ pc = "loop" /\ kind = "greedy" /\ i < size
  /\ LET nc == argmax(out[Len(out)])
         f  == forward(net, vocab_size, <<nc>>, s)
     IN  /\ chars' = append(chars, ItosAt(itos, nc))
         /\ out' = f.out /\ s' = f.s
         /\ calls' = Append(calls, [x |-> <<nc>>, s |-> s, row |-> out[Len(out)]])
  /\ i' = i + 1
  /\ UNCHANGED <<pc, kind, start, size, temperature, result, err, prev>>
  /\ UNCHANGED <<itos, stoi, net, rng>>
  /\ UNCHANGED batchVars /\ UNCHANGED trainVars /\ UNCHANGED callVars /\ UNCHANGED sideVars

\* One iteration of generate_soft's loop:
\*   out_dist = out[0][-1].div(temperature).exp()
\*   nc = torch.multinomial(out_dist,1)[0]; chars.append(vocab.itos[nc])
\*   out, s = net(nc.view(1,-1), s)
SoftStep ==
  /\ pc = "loop" /\ kind = "soft" /\ i < size
  /\ LET out_dist == OutDist(out[Len(out)], temperature) IN
     IF MultinomialFails(out_dist)
       THEN /\ pc' = "failed" /\ err' = "RuntimeError"
            /\ UNCHANGED <<chars, out, s, calls, i, rng>>
       ELSE LET nc == multinomial(out_dist, rng)
                f  == forward(net, vocab_size, <<nc>>, s)
            IN  /\ chars' = append(chars, ItosAt(itos, nc))
                /\ out' = f.out /\ s' = f.s
                /\ calls' = Append(calls, [x |-> <<nc>>, s |-> s, row |-> out[Len(out)]])
                /\ rng' = RngNext(rng)
                /\ i' = i + 1
                /\ UNCHANGED <<pc, err>>
  /\ UNCHANGED <<kind, start, size, temperature, result, prev>>
  /\ UNCHANGED <<itos, stoi, net>>
  /\ UNCHANGED batchVars /\ UNCHANGED trainVars /\ UNCHANGED callVars /\ UNCHANGED sideVars

\* return ''.join(chars)
Return ==
  /\ pc = "loop" /\ i >= size
  /\ pc' = "done"
  /\ result' = Join(chars)
  /\ UNCHANGED <<kind, start, size, temperature, chars, out, s, i, err, calls, prev>>
  /\ UNCHANGED <<itos, stoi, net, rng>>
  /\ UNCHANGED batchVars /\ UNCHANGED trainVars /\ UNCHANGED callVars /\ UNCHANGED sideVars

\* The caller goes on after the call returned or raised: the locals of the
\* call are gone, the vocabulary and the random generator stay as they are.
Discard ==
  /\ pc \in {"done", "failed"}
  /\ pc' = "idle" /\ kind' = None /\ start' = <<>> /\ size' = 0 /\ temperature' = None
  /\ chars' = <<>> /\ out' = <<>> /\ s' = NoState /\ i' = 0 /\ result' = <<>>
  /\ err' = None /\ calls' = <<>>
  /\ UNCHANGED <<itos, stoi, net, rng, prev>>
  /\ UNCHANGED batchVars /\ UNCHANGED trainVars /\ UNCHANGED callVars /\ UNCHANGED sideVars

\* ------------------------------------------------------------------------
\* Initial values shared by the specifications
\* ------------------------------------------------------------------------
VocabInit ==
  \E vc \in VocabChoices :
    /\ itos = VocabItos(vc.corpus, vc.specials)
    /\ stoi = VocabStoi(VocabItos(vc.corpus, vc.specials))

NoBatch == [err |-> None, ins |-> <<>>, outs |-> <<>>, hi |-> 0]
NoPrev == [set |-> FALSE, kind |-> None, start |-> <<>>, size |-> 0,
           temperature |-> None, result |-> <<>>]

NoCodec == [op |-> None, text |-> <<>>, id |-> 0, ids |-> <<>>, sym |-> None,
            err |-> None]

CallsIdle == codec = NoCodec /\ ctx = <<>>

NoEpoch == [pc |-> "idle"]
NoBow == [pc |-> "idle"]
NoPad == [pc |-> "idle"]

SideIdle == ep = NoEpoch /\ bow = NoBow /\ pad = NoPad

BatchIdle == gb_pc = "idle" /\ gb_s = <<>> /\ gb_w = 0 /\ gb_res = NoBatch

TrainIdle ==
  /\ tr_pc = "idle" /\ dataset = <<>> /\ tr_i = 0 /\ samples_to_train = 0
  /\ text_in = <<>> /\ text_out = <<>> /\ tr_steps = 0 /\ printed = <<>>
  /\ mb_src = NoIndex

GenIdle ==
  /\ pc = "idle" /\ kind = None /\ start = <<>> /\ size = 0 /\ temperature = None
  /\ chars = <<>> /\ out = <<>> /\ s = NoState /\ i = 0 /\ result = <<>> /\ err = None
  /\ calls = <<>> /\ prev = NoPrev

\* ------------------------------------------------------------------------
\* Specification SpecBatch: get_batch applied to any text and window size
\* ------------------------------------------------------------------------
Texts(n) == UNION {[1..k -> Chars] : k \in 0..n}

InitBatch ==
  /\ VocabInit
  /\ net = [trans |-> "step", even |-> "peak2", odd |-> "peak2"]
  /\ rng = 0
  /\ gb_pc = "ready" /\ gb_s \in Texts(MaxLen) /\ gb_w \in 0..MaxW /\ gb_res = NoBatch
  /\ TrainIdle /\ GenIdle /\ CallsIdle /\ SideIdle

GetBatchCall ==
  /\ gb_pc = "ready"
  /\ gb_res' = get_batch(stoi, gb_s, gb_w)
  /\ stoi' = StoiAfter(stoi, GetBatchTokens(gb_s, gb_w))
  /\ gb_pc' = "returned"
  /\ UNCHANGED <<itos, net, rng, gb_s, gb_w>>
  /\ UNCHANGED trainVars /\ UNCHANGED genVars /\ UNCHANGED callVars /\ UNCHANGED sideVars

NextBatch == GetBatchCall

SpecBatch == InitBatch /\ [][NextBatch]_vars

\* ------------------------------------------------------------------------
\* Specification SpecGen: generation calls on a fixed network, in sequence
\* ------------------------------------------------------------------------
InitGen ==
  /\ VocabInit
  /\ net \in Nets
  /\ rng = 0
  /\ BatchIdle /\ TrainIdle /\ GenIdle /\ CallsIdle /\ SideIdle

NextGen == Generate \/ GenerateSoft \/ GreedyStep \/ SoftStep \/ Return \/ Discard

SpecGen == InitGen /\ [][NextGen]_vars

\* ------------------------------------------------------------------------
\* Specification SpecDet: as SpecGen on fewer networks and start strings,
\* remembering the inputs and the result of one earlier call of generate
\* ------------------------------------------------------------------------
DetNets == {nt \in Nets : nt.even \in {"peak0", "tie12"} /\ nt.odd = "peak2"}
DetSeeds == { <<"a">>, <<"z">>, <<"z", "a">> }

InitDet ==
  /\ VocabInit
  /\ net \in DetNets
  /\ rng = 0
  /\ BatchIdle /\ TrainIdle /\ GenIdle /\ CallsIdle /\ SideIdle

Remember ==
  /\ pc = "done" /\ kind = "greedy" /\ ~prev.set
  /\ prev' = [set |-> TRUE, kind |-> kind, start |-> start, size |-> size,
              temperature |-> temperature, result |-> result]
  /\ UNCHANGED <<pc, kind, start, size, temperature, chars, out, s, i, result, err, calls>>
  /\ UNCHANGED <<itos, stoi, net, rng>>
  /\ UNCHANGED batchVars /\ UNCHANGED trainVars /\ UNCHANGED callVars /\ UNCHANGED sideVars

NextDet ==
  \/ GenerateOn(DetSeeds) \/ GenerateSoftOn(DetSeeds)
  \/ GreedyStep \/ SoftStep \/ Return \/ Discard \/ Remember

SpecDet == InitDet /\ [][NextDet]_vars

\* ------------------------------------------------------------------------
\* Specification SpecTrain: the generator training loop
\* ------------------------------------------------------------------------
\* The notebook's constants, scaled down: nchars = 100, the threshold 10 of
\* the loop's length test, samples_to_train = 10000, a report every 1000
\* dataset indices, and the defaults size=100, start='today ' of generate.
nchars == 2
MinWindows == 2
SamplesToTrain == 3
ReportEvery == 2
DefaultSize == 2
DefaultStart == <<"a", " ">>

TrainTexts == { <<"a">>, <<"a","b","a">>, <<"a","b","b","a">>, <<"b","a","a","b","a">> }
Datasets == UNION {[1..n -> TrainTexts] : n \in 0..MaxTexts}
TrainNets == {[trans |-> "input", even |-> "tie12", odd |-> "peak2"],
              [trans |-> "step",  even |-> "peak2", odd |-> "peak0"]}

\* Variant of SampleText: the text together with the text that follows it
\* in the dataset, as one chunk.
SampleText_chunk(ds, k) == IF k + 2 <= Len(ds) THEN ds[k + 1] \o ds[k + 2] ELSE ds[k + 1]

\* x[1] for the item x that enumerate(train_dataset) yields at index k.
SampleText(ds, k) == ds[k + 1]

\* generate(net, size, start) as a function of its inputs.
RECURSIVE GreedyLoop(_, _, _, _, _, _)
GreedyLoop(nt, its, cs, o, st, n) ==
  IF n <= 0 THEN cs
  ELSE LET nc == argmax(o[Len(o)])
           f  == forward(nt, Len(its), <<nc>>, st)
       IN  GreedyLoop(nt, its, append(cs, ItosAt(its, nc)), f.out, f.s, n - 1)

generate(nt, its, sto, sz, st) ==
  LET f == forward(nt, Len(its), enc(sto, st), NoState)
  IN  Join(GreedyLoop(nt, its, st, f.out, f.s, sz))

InitTrain ==
  /\ dataset \in Datasets
  /\ itos = VocabItos(dataset, DefaultSpecials)
  /\ stoi = VocabStoi(VocabItos(dataset, DefaultSpecials))
  /\ net \in TrainNets
  /\ rng = 0
  /\ tr_pc = "loop" /\ tr_i = 0 /\ samples_to_train = SamplesToTrain
  /\ text_in = <<>> /\ text_out = <<>> /\ tr_steps = 0 /\ printed = <<>>
  /\ mb_src = NoIndex
  /\ BatchIdle /\ GenIdle /\ CallsIdle /\ SideIdle

\* Variant of Eligible: every text passes the length test.
Eligible_any(txt) == TRUE

\* The loop's length test, negated: not (len(x[1])-nchars<10)
Eligible(txt) == ~(Len(txt) - nchars < MinWindows)

\* if len(x[1])-nchars<10: continue
TrainSkip ==
  /\ tr_pc = "loop" /\ tr_i < Len(dataset)
  /\ ~Eligible(SampleText(dataset, tr_i))
  /\ tr_i' = tr_i + 1
  /\ UNCHANGED <<tr_pc, dataset, samples_to_train, text_in, text_out, tr_steps, printed, mb_src>>
  /\ UNCHANGED <<itos, stoi, net, rng>>
  /\ UNCHANGED batchVars /\ UNCHANGED genVars /\ UNCHANGED callVars /\ UNCHANGED sideVars

\* samples_to_train-=1; if not samples_to_train: break
TrainBreak ==
  /\ tr_pc = "loop" /\ tr_i < Len(dataset)
  /\ Eligible(SampleText(dataset, tr_i))
  /\ samples_to_train - 1 = 0
  /\ samples_to_train' = samples_to_train - 1
  /\ tr_pc' = "done"
  /\ UNCHANGED <<dataset, tr_i, text_in, text_out, tr_steps, printed, mb_src>>
  /\ UNCHANGED <<itos, stoi, net, rng>>
  /\ UNCHANGED batchVars /\ UNCHANGED genVars /\ UNCHANGED callVars /\ UNCHANGED sideVars

\* text_in, text_out = get_batch(x[1]); one optimizer step on that minibatch;
\* if i%1000==0: print the loss and generate(net)
TrainStep ==
  /\ tr_pc = "loop" /\ tr_i < Len(dataset)
  /\ Eligible(SampleText(dataset, tr_i))
  /\ samples_to_train - 1 # 0
  /\ samples_to_train' = samples_to_train - 1
  /\ LET b == get_batch(stoi, SampleText(dataset, tr_i), nchars)
         st1 == StoiAfter(stoi, GetBatchTokens(SampleText(dataset, tr_i), nchars))
     IN  IF b.err # None
           THEN /\ tr_pc' = "failed"
                /\ stoi' = st1
                /\ UNCHANGED <<tr_i, text_in, text_out, tr_steps, printed, mb_src, net>>
           ELSE /\ text_in' = b.ins /\ text_out' = b.outs
                /\ mb_src' = tr_i
                /\ net' \in TrainNets
                /\ tr_steps' = tr_steps + 1
                /\ IF tr_i % ReportEvery = 0
                     THEN /\ printed' = Append(printed,
                                 [i |-> tr_i,
                                  text |-> generate(net', itos, st1, DefaultSize, DefaultStart)])
                          /\ stoi' = StoiAfter(st1, DefaultStart)
                     ELSE /\ printed' = printed
                          /\ stoi' = st1
                /\ tr_i' = tr_i + 1
                /\ tr_pc' = tr_pc
  /\ UNCHANGED <<dataset, itos, rng>>
  /\ UNCHANGED batchVars /\ UNCHANGED genVars /\ UNCHANGED callVars /\ UNCHANGED sideVars

\* the dataset iterator is exhausted
TrainEnd ==
  /\ tr_pc = "loop" /\ tr_i = Len(dataset)
  /\ tr_pc' = "done"
  /\ UNCHANGED <<dataset, tr_i, samples_to_train, text_in, text_out, tr_steps, printed, mb_src>>
  /\ UNCHANGED <<itos, stoi, net, rng>>
  /\ UNCHANGED batchVars /\ UNCHANGED genVars /\ UNCHANGED callVars /\ UNCHANGED sideVars

NextTrain == TrainSkip \/ TrainBreak \/ TrainStep \/ TrainEnd

SpecTrain == InitTrain /\ [][NextTrain]_vars


\* ------------------------------------------------------------------------
\* Specification SpecTemp: generate_soft called with any temperature, the
\* very small, the very large, zero and the negative ones included
\* ------------------------------------------------------------------------
ColdT == [num |-> 1, den |-> 100]
HotT  == [num |-> 100, den |-> 1]
ZeroT == [num |-> 0, den |-> 1]
NegT  == [num |-> 0 - 1, den |-> 1]
AllTemperatures == Temperatures \cup {ColdT, HotT, ZeroT, NegT}

InitTemp == InitGen

NextTemp ==
  GenerateSoftWith(DetSeeds, AllTemperatures) \/ SoftStep \/ Return \/ Discard

SpecTemp == InitTemp /\ [][NextTemp]_vars


\* ------------------------------------------------------------------------
\* Specification SpecSeed: calls of generate_soft in sequence on the one
\* global random generator, remembering the arguments and the result of one
\* earlier call
\* ------------------------------------------------------------------------
SoftSeeds == { <<"a">>, <<"z">> }

InitSeed == InitDet /\ net.trans = "step"

RememberSoft ==
  /\ pc = "done" /\ kind = "soft" /\ ~prev.set
  /\ prev' = [set |-> TRUE, kind |-> kind, start |-> start, size |-> size,
              temperature |-> temperature, result |-> result]
  /\ UNCHANGED <<pc, kind, start, size, temperature, chars, out, s, i, result, err, calls>>
  /\ UNCHANGED <<itos, stoi, net, rng>>
  /\ UNCHANGED batchVars /\ UNCHANGED trainVars /\ UNCHANGED callVars /\ UNCHANGED sideVars

NextSeed ==
  GenerateSoftOn(SoftSeeds) \/ SoftStep \/ Return \/ Discard \/ RememberSoft

SpecSeed == InitSeed /\ [][NextSeed]_vars


\* ------------------------------------------------------------------------
\* Specification SpecVocab: the vocabulary built from any small corpus, then
\* encode and decode (vocab.itos[id]) called on it in any order
\* ------------------------------------------------------------------------
Lines == UNION {[1..n -> CorpusChars] : n \in 0..MaxLine}
VocabCorpora == {<<l>> : l \in Lines} \cup {<<l1, l2>> : l1 \in Lines, l2 \in Lines}

\* The texts handed to encode.
EncodeTexts == { <<>>, <<"a">>, <<"z">>, <<"a", "z">>, <<"z", "b">> }

\* its[k] as Python evaluates it on a list: a negative index counts from
\* the end, an index outside [-len, len) raises IndexError.
ListGet(its, k) ==
  IF 0 <= k /\ k < Len(its) THEN [err |-> None, sym |-> its[k + 1]]
  ELSE IF 0 - Len(its) <= k /\ k < 0 THEN [err |-> None, sym |-> its[Len(its) + k + 1]]
  ELSE [err |-> "IndexError", sym |-> None]

Built == itos # <<>>

InitVocab ==
  /\ itos = <<>> /\ stoi = VocabStoi(<<>>)
  /\ net = [trans |-> "step", even |-> "peak2", odd |-> "peak2"]
  /\ rng = 0
  /\ dataset \in VocabCorpora
  /\ tr_pc = "idle" /\ tr_i = 0 /\ samples_to_train = 0
  /\ text_in = <<>> /\ text_out = <<>> /\ tr_steps = 0 /\ printed = <<>>
  /\ mb_src = NoIndex
  /\ BatchIdle /\ GenIdle /\ CallsIdle /\ SideIdle

\* counter = Counter over the corpus; vocab = torchtext.vocab.Vocab(counter)
BuildVocab ==
  /\ ~Built
  /\ itos' = VocabItos(dataset, DefaultSpecials)
  /\ stoi' = VocabStoi(VocabItos(dataset, DefaultSpecials))
  /\ UNCHANGED <<net, rng, codec, ctx>>
  /\ UNCHANGED batchVars /\ UNCHANGED trainVars /\ UNCHANGED genVars /\ UNCHANGED sideVars

\* encode(x)
EncodeCall ==
  /\ Built
  /\ \E x \in EncodeTexts :
       /\ codec' = [op |-> "encode", text |-> x, id |-> 0, ids |-> encode(stoi, x),
                    sym |-> None, err |-> None]
       /\ stoi' = StoiAfter(stoi, char_tokenizer(x))
  /\ UNCHANGED <<itos, net, rng, ctx>>
  /\ UNCHANGED batchVars /\ UNCHANGED trainVars /\ UNCHANGED genVars /\ UNCHANGED sideVars

\* vocab.itos[k] for any integer k
DecodeCall ==
  /\ Built
  /\ \E k \in (0 - vocab_size - 1)..vocab_size :
       codec' = [op |-> "decode", text |-> <<>>, id |-> k, ids |-> <<>>,
                 sym |-> ListGet(itos, k).sym, err |-> ListGet(itos, k).err]
  /\ UNCHANGED <<itos, stoi, net, rng, ctx>>
  /\ UNCHANGED batchVars /\ UNCHANGED trainVars /\ UNCHANGED genVars /\ UNCHANGED sideVars

NextVocab == BuildVocab \/ EncodeCall \/ DecodeCall

SpecVocab == InitVocab /\ [][NextVocab]_vars


\* ------------------------------------------------------------------------
\* Specification SpecConc: two generation calls on the same network whose
\* steps interleave; each call has its own locals (ctx[c]), the vocabulary
\* and the global random generator are the ones of the module
\* ------------------------------------------------------------------------
Callers == {1, 2}
ConcNets == {nt \in DetNets : nt.trans = "step"}
ConcSeeds == { <<"a">>, <<"z">> }
ConcTemperatures == {[num |-> 1, den |-> 1]}

CtxFree == [pc |-> "idle", kind |-> None, start |-> <<>>, size |-> 0,
            temperature |-> None, chars |-> <<>>, out |-> <<>>, s |-> NoState,
            i |-> 0, result |-> <<>>, err |-> None, rng0 |-> 0]

\* generate_soft run on its own from generator state r: the loop ...
RECURSIVE SoftLoop(_, _, _, _, _, _, _, _)
SoftLoop(nt, its, cs, o, st, n, T, r) ==
  IF n <= 0 THEN [err |-> None, chars |-> cs]
  ELSE LET out_dist == OutDist(o[Len(o)], T) IN
       IF MultinomialFails(out_dist) THEN [err |-> "RuntimeError", chars |-> cs]
       ELSE LET nc == multinomial(out_dist, r)
                f  == forward(nt, Len(its), <<nc>>, st)
            IN  SoftLoop(nt, its, append(cs, ItosAt(its, nc)), f.out, f.s, n - 1, T,
                         RngNext(r))

\* ... and the whole call.
generate_soft(nt, its, sto, sz, st, T, r) ==
  LET f == forward(nt, Len(its), enc(sto, st), NoState)
      l == SoftLoop(nt, its, st, f.out, f.s, sz, T, r)
  IN  [err |-> l.err, result |-> IF l.err = None THEN Join(l.chars) ELSE <<>>]

InitConc ==
  /\ VocabInit
  /\ net \in ConcNets
  /\ rng = 0
  /\ codec = NoCodec
  /\ ctx = [c \in Callers |-> CtxFree]
  /\ BatchIdle /\ TrainIdle /\ GenIdle /\ SideIdle

\* chars = list(start); out, s = net(enc(chars).view(1,-1)) in call c
ConcPrime(c, k, st, sz, T) ==
  LET f == forward(net, vocab_size, enc(stoi, st), NoState) IN
  /\ ctx[c].pc = "idle"
  /\ ctx' = [ctx EXCEPT ![c] =
       [pc |-> "loop", kind |-> k, start |-> st, size |-> sz, temperature |-> T,
        chars |-> st, out |-> f.out, s |-> f.s, i |-> 0, result |-> <<>>,
        err |-> None, rng0 |-> rng]]
  /\ stoi' = StoiAfter(stoi, st)
  /\ UNCHANGED <<itos, net, rng, codec>>
  /\ UNCHANGED batchVars /\ UNCHANGED trainVars /\ UNCHANGED genVars /\ UNCHANGED sideVars

ConcGenerate ==
  \E c \in Callers, st \in ConcSeeds, sz \in Sizes : ConcPrime(c, "greedy", st, sz, None)

ConcGenerateSoft ==
  \E c \in Callers, st \in ConcSeeds, sz \in Sizes, T \in ConcTemperatures :
    ConcPrime(c, "soft", st, sz, T)

\* One iteration of generate's loop in call c.
ConcGreedyStep ==
  \E c \in Callers :
    /\ ctx[c].pc = "loop" /\ ctx[c].kind = "greedy" /\ ctx[c].i < ctx[c].size
    /\ LET o  == ctx[c].out
           nc == argmax(o[Len(o)])
           f  == forward(net, vocab_size, <<nc>>, ctx[c].s)
       IN  ctx' = [ctx EXCEPT ![c].chars = append(@, ItosAt(itos, nc)),
                              ![c].out = f.out, ![c].s = f.s, ![c].i = @ + 1]
    /\ UNCHANGED <<itos, stoi, net, rng, codec>>
    /\ UNCHANGED batchVars /\ UNCHANGED trainVars /\ UNCHANGED genVars /\ UNCHANGED sideVars

\* One iteration of generate_soft's loop in call c: the draw takes the
\* state of the global generator and advances it.
ConcSoftStep ==
  \E c \in Callers :
    /\ ctx[c].pc = "loop" /\ ctx[c].kind = "soft" /\ ctx[c].i < ctx[c].size
    /\ LET o == ctx[c].out
           out_dist == OutDist(o[Len(o)], ctx[c].temperature)
       IN  IF MultinomialFails(out_dist)
             THEN /\ ctx' = [ctx EXCEPT ![c].pc = "failed", ![c].err = "RuntimeError"]
                  /\ UNCHANGED rng
             ELSE LET nc == multinomial(out_dist, rng)
                      f  == forward(net, vocab_size, <<nc>>, ctx[c].s)
                  IN  /\ ctx' = [ctx EXCEPT ![c].chars = append(@, ItosAt(itos, nc)),
                                            ![c].out = f.out, ![c].s = f.s,
                                            ![c].i = @ + 1]
                      /\ rng' = RngNext(rng)
    /\ UNCHANGED <<itos, stoi, net, codec>>
    /\ UNCHANGED batchVars /\ UNCHANGED trainVars /\ UNCHANGED genVars /\ UNCHANGED sideVars

\* return ''.join(chars) in call c
ConcReturn ==
  \E c \in Callers :
    /\ ctx[c].pc = "loop" /\ ctx[c].i >= ctx[c].size
    /\ ctx' = [ctx EXCEPT ![c].pc = "done", ![c].result = Join(ctx[c].chars)]
    /\ UNCHANGED <<itos, stoi, net, rng, codec>>
    /\ UNCHANGED batchVars /\ UNCHANGED trainVars /\ UNCHANGED genVars /\ UNCHANGED sideVars

NextConc ==
  ConcGenerate \/ ConcGenerateSoft \/ ConcGreedyStep \/ ConcSoftStep \/ ConcReturn

SpecConc == InitConc /\ [][NextConc]_vars


\* ------------------------------------------------------------------------
\* Specification SpecEpoch: one call of train_epoch on any small data loader
\* ------------------------------------------------------------------------
\* A batch as train_epoch sees it: n = len(labels), ok = the number of
\* samples with predicted == labels, loss = the value of loss_fn.
Batches == {b \in [n : 1..MaxBatch, ok : 0..MaxBatch, loss : 0..MaxBatch] :
              b.ok <= b.n /\ b.loss = b.n - b.ok}
Loaders == UNION {[1..m -> Batches] : m \in 0..MaxBatches}

\* epoch_size: None (set = FALSE) or an integer.
EpochSizes == {[set |-> FALSE, val |-> 0]} \cup {[set |-> TRUE, val |-> v] : v \in 0..MaxEpoch}
ReportFreqs == {1, 2}

NoRet == [loss |-> 0, acc |-> 0, count |-> 0]

\* Variant of EpochStop: count >= epoch_size.
EpochStop_ge(e, count) == e.set /\ e.val # 0 /\ count >= e.val

\* epoch_size and count>epoch_size
EpochStop(e, count) == e.set /\ e.val # 0 /\ count > e.val

\* Variant of CountAfter: count += 1.
CountAfter_one(count, b) == count + 1

\* count+=len(labels)
CountAfter(count, b) == count + b.n

InitEpoch ==
  /\ itos = VocabItos(CorpusB, DefaultSpecials)
  /\ stoi = VocabStoi(VocabItos(CorpusB, DefaultSpecials))
  /\ net = [trans |-> "step", even |-> "peak2", odd |-> "peak2"]
  /\ rng = 0
  /\ \E dl \in Loaders, e \in EpochSizes, rf \in ReportFreqs :
       ep = [pc |-> "loop", dataloader |-> dl, epoch_size |-> e, report_freq |-> rf,
             total_loss |-> 0, acc |-> 0, count |-> 0, i |-> 0,
             seen |-> <<>>, printed |-> <<>>, ret |-> NoRet, err |-> None]
  /\ bow = NoBow /\ pad = NoPad
  /\ BatchIdle /\ TrainIdle /\ GenIdle /\ CallsIdle

\* One iteration of the for loop: the optimizer step on the batch, the
\* running totals, the progress line, the epoch_size test.
EpochBatch ==
  /\ ep.pc = "loop" /\ Len(ep.seen) < Len(ep.dataloader)
  /\ LET k  == Len(ep.seen) + 1
         b  == ep.dataloader[k]
         c1 == CountAfter(ep.count, b)
         a1 == ep.acc + b.ok
         i1 == ep.i + 1
     IN  ep' = [ep EXCEPT
                  !.total_loss = @ + b.loss, !.acc = a1, !.count = c1, !.i = i1,
                  !.seen = Append(@, k),
                  !.printed = IF i1 % ep.report_freq = 0
                                THEN Append(@, [i |-> i1, count |-> c1, acc |-> a1])
                                ELSE @,
                  !.pc = IF EpochStop(ep.epoch_size, c1) THEN "after" ELSE "loop"]
  /\ UNCHANGED <<itos, stoi, net, rng, bow, pad>>
  /\ UNCHANGED batchVars /\ UNCHANGED trainVars /\ UNCHANGED genVars /\ UNCHANGED callVars

\* The data loader is exhausted.
EpochExhausted ==
  /\ ep.pc = "loop" /\ Len(ep.seen) = Len(ep.dataloader)
  /\ ep' = [ep EXCEPT !.pc = "after"]
  /\ UNCHANGED <<itos, stoi, net, rng, bow, pad>>
  /\ UNCHANGED batchVars /\ UNCHANGED trainVars /\ UNCHANGED genVars /\ UNCHANGED callVars

\* return total_loss.item()/count, acc.item()/count
\* With no batch processed total_loss is the int 0, which has no item().
EpochReturn ==
  /\ ep.pc = "after"
  /\ ep' = IF ep.i = 0
             THEN [ep EXCEPT !.pc = "failed", !.err = "AttributeError"]
             ELSE [ep EXCEPT !.pc = "returned",
                             !.ret = [loss |-> ep.total_loss, acc |-> ep.acc,
                                      count |-> ep.count]]
  /\ UNCHANGED <<itos, stoi, net, rng, bow, pad>>
  /\ UNCHANGED batchVars /\ UNCHANGED trainVars /\ UNCHANGED genVars /\ UNCHANGED callVars

NextEpoch == EpochBatch \/ EpochExhausted \/ EpochReturn

SpecEpoch == InitEpoch /\ [][NextEpoch]_vars /\ WF_vars(NextEpoch)


\* ------------------------------------------------------------------------
\* Specification SpecBow: to_bow called on any short text and vector size,
\* with the word vocabulary of the bag-of-words notebook
\* ------------------------------------------------------------------------
\* A word is the sequence of its characters; the two specials are words of
\* one symbol that no text can produce.
BowChars == {"a", "A", "b", " "}
BowTexts == UNION {[1..k -> BowChars] : k \in 0..MaxLen}

\* tokenizer = get_tokenizer('basic_english'): the text in lower case,
\* split at white space, empty pieces dropped.
Lower(c) == IF c = "A" THEN "a" ELSE c

RECURSIVE SplitWords(_, _)
SplitWords(x, word) ==
  IF x = <<>> THEN (IF word = <<>> THEN <<>> ELSE <<word>>)
  ELSE IF Head(x) = " "
    THEN (IF word = <<>> THEN <<>> ELSE <<word>>) \o SplitWords(Tail(x), <<>>)
    ELSE SplitWords(Tail(x), Append(word, Lower(Head(x))))

tokenizer(x) == SplitWords(x, <<>>)

\* vocab = torchtext.vocab.Vocab(counter, min_freq=1) for a corpus in which
\* 'a' is more frequent than 'b' and 'b' more frequent than 'ab'.
WordItos == << <<"<unk>">>, <<"<pad>">>, <<"a">>, <<"b">>, <<"a", "b">> >>
WordStoi == VocabStoi(WordItos)

\* encode(x) of the bag-of-words notebook: [vocab.stoi[s] for s in tokenizer(x)]
encode_words(st, x) == [k \in 1..Len(tokenizer(x)) |-> StoiGet(st, tokenizer(x)[k])]

\* for i in encode(text): if i<bow_vocab_size: res[i] += 1
RECURSIVE BowLoop(_, _, _)
BowLoop(res, ids, n) ==
  IF ids = <<>> THEN res
  ELSE BowLoop(IF Head(ids) < n THEN [res EXCEPT ![Head(ids)] = @ + 1] ELSE res,
               Tail(ids), n)

\* Variant of to_bow: an id >= bow_vocab_size is counted at the last index.
to_bow_clip(st, text, n) ==
  BowLoop([j \in 0..(n - 1) |-> 0],
          [k \in 1..Len(encode_words(st, text)) |-> Min(encode_words(st, text)[k], n - 1)], n)

\* to_bow(text, bow_vocab_size): res = torch.zeros(bow_vocab_size), then the
\* loop; the vector is the function index -> count on 0..bow_vocab_size-1.
to_bow(st, text, n) == BowLoop([j \in 0..(n - 1) |-> 0], encode_words(st, text), n)

InitBow ==
  /\ VocabInit
  /\ net = [trans |-> "step", even |-> "peak2", odd |-> "peak2"]
  /\ rng = 0
  /\ \E x \in BowTexts, n \in 0..Len(WordItos) :
       bow = [pc |-> "ready", text |-> x, bow_vocab_size |-> n, stoi |-> WordStoi,
              res |-> <<>>]
  /\ ep = NoEpoch /\ pad = NoPad
  /\ BatchIdle /\ TrainIdle /\ GenIdle /\ CallsIdle

ToBowCall ==
  /\ bow.pc = "ready"
  /\ bow' = [bow EXCEPT !.pc = "returned",
                        !.res = to_bow(bow.stoi, bow.text, bow.bow_vocab_size),
                        !.stoi = StoiAfter(bow.stoi, tokenizer(bow.text))]
  /\ UNCHANGED <<itos, stoi, net, rng, ep, pad>>
  /\ UNCHANGED batchVars /\ UNCHANGED trainVars /\ UNCHANGED genVars /\ UNCHANGED callVars

NextBow == ToBowCall

SpecBow == InitBow /\ [][NextBow]_vars


\* ------------------------------------------------------------------------
\* Specification SpecPad: pad_length called on any small non-empty minibatch
\* ------------------------------------------------------------------------
\* The texts of the samples: no token, one token, two tokens the first of
\* which is not in the vocabulary, three tokens.
PadTexts == { <<>>, <<"a">>, <<"b", "b", " ", "A">>, <<"a", " ", "b", " ", "a", "b">> }
PadLabels == {1, 2}
PadItems == [label : PadLabels, text : PadTexts]
Minibatches == UNION {[1..m -> PadItems] : m \in 1..MaxItems}

\* max(len_seq)
RECURSIVE MaxOf(_)
MaxOf(xs) == IF Len(xs) = 1 THEN xs[1] ELSE Max(Head(xs), MaxOf(Tail(xs)))

\* Variant of PadRow: the zeros are put in front of the sequence.
PadRow_left(t, l) == [k \in 1..(l - Len(t)) |-> 0] \o t

\* torch.nn.functional.pad(torch.tensor(t),(0,l-len(t)),mode='constant',value=0)
PadRow(t, l) == t \o [k \in 1..(l - Len(t)) |-> 0]

RECURSIVE TokensOf(_)
TokensOf(b) == IF b = <<>> THEN <<>> ELSE tokenizer(Head(b).text) \o TokensOf(Tail(b))

\* pad_length(b): the tuple (labels, padded features, length sequence)
pad_length(st, b) ==
  LET v == [n \in 1..Len(b) |-> encode_words(st, b[n].text)]
      len_seq == [n \in 1..Len(b) |-> Len(v[n])]
      l == MaxOf(len_seq)
  IN  [labels   |-> [n \in 1..Len(b) |-> b[n].label - 1],
       features |-> [n \in 1..Len(b) |-> PadRow(v[n], l)],
       lengths  |-> len_seq]

InitPad ==
  /\ itos = VocabItos(CorpusB, DefaultSpecials)
  /\ stoi = VocabStoi(VocabItos(CorpusB, DefaultSpecials))
  /\ net = [trans |-> "step", even |-> "peak2", odd |-> "peak2"]
  /\ rng = 0
  /\ \E b \in Minibatches :
       pad = [pc |-> "ready", b |-> b, stoi |-> WordStoi,
              labels |-> <<>>, features |-> <<>>, lengths |-> <<>>]
  /\ ep = NoEpoch /\ bow = NoBow
  /\ BatchIdle /\ TrainIdle /\ GenIdle /\ CallsIdle

PadLengthCall ==
  /\ pad.pc = "ready"
  /\ LET r == pad_length(pad.stoi, pad.b) IN
     pad' = [pad EXCEPT !.pc = "returned",
                        !.labels = r.labels, !.features = r.features,
                        !.lengths = r.lengths,
                        !.stoi = StoiAfter(pad.stoi, TokensOf(pad.b))]
  /\ UNCHANGED <<itos, stoi, net, rng, ep, bow>>
  /\ UNCHANGED batchVars /\ UNCHANGED trainVars /\ UNCHANGED genVars /\ UNCHANGED callVars

NextPad == PadLengthCall

SpecPad == InitPad /\ [][NextPad]_vars

\* ========================================================================
\* Properties
\* ========================================================================
\* n copies of the symbol sym
Copies(sym, n) == [k \in 1..n |-> sym]

\* The symbols a call has appended so far, decoded from the ids it fed back
\* to the network.
FedSymbols == [k \in 1..(Len(calls) - 1) |-> itos[calls[k + 1].x[1] + 1]]

\* C1 (SpecGen): generate returns the seed followed by exactly size generated
\* symbols; the seed characters stay verbatim as the prefix of chars, also
\* those not in the vocabulary, and after k loop iterations chars holds
\* exactly len(start)+k symbols.
C1_SeedThenSymbols ==
  (kind = "greedy" /\ pc \in {"loop", "done"}) =>
    /\ Len(chars) = Len(start) + i
    /\ SubSeq(chars, 1, Len(start)) = start
    /\ i <= size
    /\ pc = "done" =>
         /\ i = size
         /\ Len(FedSymbols) = size
         /\ result = start \o Join(FedSymbols)

C1_Witness ==
  /\ pc = "done" /\ kind = "greedy" /\ size >= 2
  /\ \E k \in 1..Len(start) : start[k] = "z"
  /\ \E k \in 1..Len(FedSymbols) : FedSymbols[k] = "<unk>"

\* C2 (SpecGen): at every step of generate the symbol appended is the
\* decoding of the id that is maximal in the most recent logits row, the
\* lowest such id on a tie, and that id itself is the input of the next
\* invocation of the network.
C2_ArgmaxFedBack ==
  (kind = "greedy" /\ pc \in {"loop", "done"}) =>
    /\ Len(calls) = i + 1
    /\ \A k \in 1..i :
         LET row == calls[k + 1].row
             nc  == calls[k + 1].x[1]
         IN  /\ Len(calls[k + 1].x) = 1
             /\ nc \in DOMAIN row
             /\ \A j \in DOMAIN row : row[j] <= row[nc]
             /\ \A j \in DOMAIN row : j < nc => row[j] < row[nc]
             /\ chars[Len(start) + k] = itos[nc + 1]

C2_Witness ==
  /\ pc = "done" /\ kind = "greedy" /\ size >= 2
  /\ \E k \in 2..Len(calls) :
       \E j1, j2 \in DOMAIN calls[k].row :
         /\ j1 < j2
         /\ calls[k].row[j1] = calls[k].row[j2]
         /\ \A j \in DOMAIN calls[k].row : calls[k].row[j] <= calls[k].row[j1]

\* The network ranks id c strictly highest in every hidden state, whatever
\* its input.
RanksHighest(c) ==
  /\ c \in Ids
  /\ \A h \in HiddenStates : \A j \in Ids \ {c} :
       Logits(net, vocab_size, h)[j] < Logits(net, vocab_size, h)[c]

ExampleItos == <<"<unk>", "a", "b", " ">>

\* C3 (SpecGen): for a network that always ranks one fixed id c highest,
\* generate returns the seed followed by size copies of decode(c); with the
\* vocabulary {<unk>:0, a:1, b:2, ' ':3}, seed "a", size 3 and c = 2 it
\* returns "abbb".
C3_ConstantModel ==
  (pc = "done" /\ kind = "greedy") =>
    /\ \A c \in Ids : RanksHighest(c) =>
         result = start \o Join(Copies(itos[c + 1], size))
    /\ (itos = ExampleItos /\ start = <<"a">> /\ size = 3 /\ RanksHighest(2)) =>
         result = <<"a", "b", "b", "b">>

C3_Witness ==
  /\ pc = "done" /\ kind = "greedy"
  /\ itos = ExampleItos /\ start = <<"a">> /\ size = 3 /\ RanksHighest(2)

\* C4 (SpecDet): two calls of generate with the same network, the same seed
\* and the same size return identical strings, whatever calls of generate
\* or generate_soft ran before or between them.
C4_GreedyDeterministic ==
  (pc = "done" /\ kind = "greedy" /\ prev.set /\ prev.start = start /\ prev.size = size) =>
    result = prev.result

C4_Witness ==
  /\ pc = "done" /\ kind = "greedy" /\ prev.set
  /\ prev.start = start /\ prev.size = size /\ size >= 2
  /\ rng # 0
  /\ \E k \in 1..Len(start) : start[k] = "z"

\* The encoded source text of a get_batch call.
Src == encode(stoi, gb_s)

\* C5 (SpecBatch): for a text of length L >= w, get_batch returns exactly
\* L - w (input, target) pairs in increasing start position, each of length
\* w, pair k with input = source[k .. k+w-1] and target = source[k+1 .. k+w]
\* (0-based), and reads no index outside the source.
C5_Windows ==
  (gb_pc = "returned" /\ Len(gb_s) >= gb_w) =>
    /\ gb_res.err = None
    /\ Len(gb_res.ins) = Len(gb_s) - gb_w
    /\ Len(gb_res.outs) = Len(gb_s) - gb_w
    /\ gb_res.hi <= Len(gb_s)
    /\ \A k \in 1..(Len(gb_s) - gb_w) :
         /\ gb_res.ins[k]  = [j \in 1..gb_w |-> Src[k - 1 + j]]
         /\ gb_res.outs[k] = [j \in 1..gb_w |-> Src[k + j]]

C5_Witness ==
  /\ gb_pc = "returned" /\ Len(gb_s) = gb_w + 2 /\ gb_w = 2
  /\ Src[1] # Src[2] /\ Src[3] # Src[4]

\* C6 (SpecBatch): in every window the target is the input shifted one
\* position forward: target[k][i] = input[k][i+1] for i < w-1, and the last
\* target element is the source element at position k+w.
C6_TargetShifted ==
  (gb_pc = "returned" /\ gb_res.err = None) =>
    /\ Len(gb_res.outs) = Len(gb_res.ins)
    /\ \A k \in 1..Len(gb_res.ins) :
         /\ \A j \in 1..(gb_w - 1) : gb_res.outs[k][j] = gb_res.ins[k][j + 1]
         /\ gb_w >= 1 => gb_res.outs[k][gb_w] = Src[k + gb_w]

C6_Witness ==
  /\ gb_pc = "returned" /\ gb_res.err = None
  /\ gb_w >= 2 /\ Len(gb_res.ins) >= 1
  /\ gb_res.ins[1][1] # gb_res.ins[1][2]

\* C7 (SpecBatch): consecutive windows overlap by w-1 positions:
\* input[k+1][j] = input[k][j+1] for j < w-1, and input[k+1] = target[k].
C7_Overlap ==
  (gb_pc = "returned" /\ gb_res.err = None) =>
    \A k \in 1..(Len(gb_res.ins) - 1) :
      /\ \A j \in 1..(gb_w - 1) : gb_res.ins[k + 1][j] = gb_res.ins[k][j + 1]
      /\ gb_res.ins[k + 1] = gb_res.outs[k]

C7_Witness ==
  /\ gb_pc = "returned" /\ gb_res.err = None
  /\ gb_w >= 2 /\ Len(gb_res.ins) >= 2
  /\ gb_res.ins[1] # gb_res.ins[2]

\* C8 as claimed (SpecBatch): for every text shorter than w + 1, the empty
\* text and every length below w included, get_batch returns an empty
\* result and raises no error.
C8_ShortIsEmpty ==
  (gb_pc = "returned" /\ Len(gb_s) < gb_w + 1) =>
    /\ gb_res.err = None
    /\ gb_res.ins = <<>> /\ gb_res.outs = <<>>

\* C8 amended (SpecBatch): for a text of length exactly w get_batch returns
\* an empty result and raises no error; for a text shorter than w it raises
\* RuntimeError (negative dimension) and returns nothing.
C8_ShortAmended ==
  gb_pc = "returned" =>
    /\ Len(gb_s) = gb_w =>
         gb_res.err = None /\ gb_res.ins = <<>> /\ gb_res.outs = <<>>
    /\ Len(gb_s) < gb_w =>
         gb_res.err = "RuntimeError" /\ gb_res.ins = <<>> /\ gb_res.outs = <<>>

C8_Witness ==
  /\ gb_pc = "returned" /\ Len(gb_s) < gb_w /\ gb_res.err = "RuntimeError"

\* C9 (SpecTrain): every minibatch of the training loop is built from one
\* text: its rows are exactly the windows of the text at dataset index
\* mb_src, so all w+1 source positions of each pair lie inside that text.
C9_OneTextPerBatch ==
  mb_src # NoIndex =>
    LET txt == dataset[mb_src + 1]
        ids == encode(stoi, txt)
    IN  /\ Len(text_in) = Len(txt) - nchars
        /\ Len(text_out) = Len(txt) - nchars
        /\ \A k \in 1..Len(text_in) :
             /\ k + nchars <= Len(txt)
             /\ text_in[k]  = [j \in 1..nchars |-> ids[k - 1 + j]]
             /\ text_out[k] = [j \in 1..nchars |-> ids[k + j]]

C9_Witness ==
  /\ mb_src # NoIndex /\ tr_steps >= 2
  /\ mb_src + 2 <= Len(dataset)
  /\ Len(text_in) >= 2

\* C10 as claimed (SpecGen): at each step of generate_soft an index is drawn
\* from the weights exp(logit/T): the drawn index lies in [0, vocab_size),
\* an index of zero weight is never drawn, and every index of positive
\* weight can be drawn.
C10_DrawByWeight ==
  (pc = "loop" /\ kind = "soft" /\ i < size) =>
    LET dist == OutDist(out[Len(out)], temperature) IN
    \A j \in Ids :
      /\ dist[j] # "zero" =>
           /\ ~MultinomialFails(dist)
           /\ \E r \in 0..(RngStates - 1) : multinomial(dist, r) = j
      /\ dist[j] = "zero" =>
           (~MultinomialFails(dist) =>
              \A r \in 0..(RngStates - 1) : multinomial(dist, r) # j)

\* C11 (SpecTemp): with a temperature close to 0 generate_soft returns the
\* string generate returns for the same network, start and size, and with
\* a very large temperature every id can be drawn at every step, whatever
\* the logits.
C11_TemperatureLimits ==
  /\ (kind = "soft" /\ temperature = ColdT) =>
       /\ pc # "failed"
       /\ pc = "done" => result = generate(net, itos, stoi, size, start)
  /\ (kind = "soft" /\ temperature = HotT /\ pc = "loop" /\ i < size) =>
       Support(OutDist(out[Len(out)], temperature)) = DOMAIN out[Len(out)]

\* C12 (SpecTemp): a call of generate_soft with temperature <= 0 fails with
\* InvalidArgument before any symbol is generated and returns nothing.
C12_TemperatureRejected ==
  (kind = "soft" /\ temperature.num <= 0) =>
    /\ pc = "failed" /\ err = "InvalidArgument"
    /\ i = 0 /\ result = <<>>

\* C13 (SpecGen): a generation call with a non-positive size or an empty
\* start string fails at once with InvalidArgument and returns nothing; it
\* never returns the start string unchanged.
C13_InvalidCallRejected ==
  (pc # "idle" /\ (size <= 0 \/ start = <<>>)) =>
    /\ pc = "failed" /\ err = "InvalidArgument"
    /\ result = <<>>

\* C15 (SpecTemp): for every temperature > 0 no weight of out_dist is inf
\* and the call raises no error at the exponentiation or the draw.
C15_StableExp ==
  (kind = "soft" /\ temperature.num > 0) =>
    /\ pc # "failed"
    /\ (pc = "loop" /\ i < size) =>
         \A j \in DOMAIN out[Len(out)] :
           OutDist(out[Len(out)], temperature)[j] \notin {"inf", "nan"}

CorpusSymbols == {c \in Chars : CounterOf(dataset, c) >= 1}
IdOf(sym) == (CHOOSE k \in 1..Len(itos) : itos[k] = sym) - 1

\* C16 (SpecVocab): once the vocabulary is built, stoi is injective, its ids
\* are exactly 0..vocab_size-1, itos[stoi[c]] = c for every corpus symbol c,
\* and stoi is still the dictionary the construction made, whatever encode
\* and decode calls came after.
C16_VocabularyFixed ==
  Built =>
    /\ \A x \in DOMAIN stoi : \A y \in DOMAIN stoi : stoi[x] = stoi[y] => x = y
    /\ {stoi[x] : x \in DOMAIN stoi} = Ids
    /\ \A c \in CorpusSymbols : c \in DOMAIN stoi /\ ItosAt(itos, stoi[c]) = c
    /\ stoi = VocabStoi(itos)
    /\ itos = VocabItos(dataset, DefaultSpecials)

\* C17 (SpecVocab): encode raises nothing and returns one id per token, in
\* order: the id of the token in the vocabulary, or 0 for a token the
\* vocabulary does not hold.
C17_EncodeTotal ==
  codec.op = "encode" =>
    /\ codec.err = None
    /\ Len(codec.ids) = Len(codec.text)
    /\ \A k \in 1..Len(codec.text) :
         IF \E j \in 1..Len(itos) : itos[j] = codec.text[k]
           THEN codec.ids[k] = IdOf(codec.text[k])
           ELSE codec.ids[k] = unk_index

C17_Witness ==
  /\ codec.op = "encode" /\ codec.text = <<"z", "b">>
  /\ codec.ids[1] = 0 /\ codec.ids[2] >= 2
  /\ "z" \in DOMAIN stoi

\* C18 (SpecVocab): vocab.itos[id] raises IndexError for every id outside
\* 0..vocab_size-1, the negative ones included, and yields no symbol.
C18_DecodeOutOfRange ==
  (codec.op = "decode" /\ (codec.id < 0 \/ codec.id >= vocab_size)) =>
    codec.err = "IndexError" /\ codec.sym = None

\* C19 (SpecVocab): ids follow descending frequency, equally frequent
\* symbols are in first-seen order, id 0 is the unknown symbol and no corpus
\* symbol has id 0.
C19_FrequencyThenFirstSeen ==
  Built =>
    /\ ItosAt(itos, 0) = "<unk>"
    /\ \A c \in CorpusSymbols : IdOf(c) # 0
    /\ \A c \in CorpusSymbols : \A d \in CorpusSymbols :
         /\ CounterOf(dataset, c) > CounterOf(dataset, d) => IdOf(c) < IdOf(d)
         /\ (/\ CounterOf(dataset, c) = CounterOf(dataset, d)
             /\ FirstSeen(dataset, c) < FirstSeen(dataset, d)) => IdOf(c) < IdOf(d)

\* C19 amended (SpecVocab): ids follow descending frequency, equally
\* frequent symbols are in ascending symbol (code point) order, id 0 is the
\* unknown symbol and no corpus symbol has id 0.
C19_FrequencyThenSymbol ==
  Built =>
    /\ ItosAt(itos, 0) = "<unk>"
    /\ \A c \in CorpusSymbols : IdOf(c) # 0
    /\ \A c \in CorpusSymbols : \A d \in CorpusSymbols :
         /\ CounterOf(dataset, c) > CounterOf(dataset, d) => IdOf(c) < IdOf(d)
         /\ (/\ CounterOf(dataset, c) = CounterOf(dataset, d)
             /\ CharOrd(c) < CharOrd(d)) => IdOf(c) < IdOf(d)

C19_Witness ==
  /\ Built
  /\ \E c \in CorpusSymbols : \E d \in CorpusSymbols :
       /\ CounterOf(dataset, c) = CounterOf(dataset, d)
       /\ FirstSeen(dataset, c) < FirstSeen(dataset, d)
       /\ CharOrd(d) < CharOrd(c)
       /\ IdOf(d) < IdOf(c)
  /\ \E c \in CorpusSymbols : \E d \in CorpusSymbols :
       /\ CounterOf(dataset, c) > CounterOf(dataset, d)
       /\ CharOrd(d) < CharOrd(c)
       /\ IdOf(c) < IdOf(d)

\* C20 (SpecConc): under every interleaving of the steps of two generation
\* calls on the same network, each call returns what it returns when it
\* runs alone with the same arguments, a generate_soft call when it runs
\* alone from the state the random generator had when the call began.
C20_CallsIndependent ==
  \A c \in Callers :
    ctx[c].pc \in {"done", "failed"} =>
      IF ctx[c].kind = "greedy"
        THEN /\ ctx[c].pc = "done"
             /\ ctx[c].result = generate(net, itos, stoi, ctx[c].size, ctx[c].start)
        ELSE LET alone == generate_soft(net, itos, stoi, ctx[c].size, ctx[c].start,
                                        ctx[c].temperature, ctx[c].rng0)
             IN  ctx[c].err = alone.err /\ ctx[c].result = alone.result

\* The dataset indices (0-based) of the texts that pass the length test.
EligibleIndices == {k \in 0..(Len(dataset) - 1) : Len(dataset[k + 1]) - nchars >= MinWindows}

\* C21 (SpecTrain): the loop makes a parameter update on at most
\* samples_to_train texts, on exactly that many when the dataset holds at
\* least that many eligible texts, and it has stopped once the limit is
\* reached.
C21_SampleLimit ==
  /\ tr_steps <= SamplesToTrain
  /\ samples_to_train = 0 => tr_pc = "done"
  /\ (tr_pc = "done" /\ Cardinality(EligibleIndices) >= SamplesToTrain) =>
       tr_steps = SamplesToTrain

\* C27 (SpecTrain): a minibatch is built only from a text with
\* len(text) - nchars >= 10, it holds at least 10 windows, and get_batch
\* never fails in the loop.
C27_OnlyLongTexts ==
  /\ tr_pc # "failed"
  /\ mb_src # NoIndex =>
       /\ Len(dataset[mb_src + 1]) - nchars >= MinWindows
       /\ Len(text_in) >= MinWindows
       /\ Len(text_in) = Len(dataset[mb_src + 1]) - nchars
  /\ tr_steps <= Cardinality({k \in EligibleIndices : k < tr_i})

C27_Witness ==
  /\ mb_src # NoIndex /\ Len(text_in) = MinWindows
  /\ \E k \in 0..(mb_src - 1) : Len(dataset[k + 1]) < nchars
  /\ tr_steps = 1 /\ tr_i >= 3

\* C28 (SpecTrain): for every dataset index the loop has passed, exactly one
\* report was printed if the index is a multiple of 1000 and none otherwise.
C28_ReportEveryThousand ==
  \A k \in 0..(tr_i - 1) :
    Cardinality({n \in 1..Len(printed) : printed[n].i = k}) =
      (IF k % ReportEvery = 0 THEN 1 ELSE 0)

\* C24 (SpecGen): a generation call invokes the network once on the whole
\* encoded start string with no state, then once per generated symbol on a
\* single id, each time with the state the invocation before returned:
\* size+1 invocations when the call returns.
C24_InvocationOrder ==
  pc \in {"loop", "done"} =>
    /\ Len(calls) = i + 1
    /\ pc = "done" => Len(calls) = size + 1
    /\ calls[1].x = enc(stoi, start) /\ calls[1].s = NoState
    /\ \A k \in 2..Len(calls) :
         /\ Len(calls[k].x) = 1
         /\ calls[k].s = forward(net, vocab_size, calls[k - 1].x, calls[k - 1].s).s
    /\ s = forward(net, vocab_size, calls[Len(calls)].x, calls[Len(calls)].s).s

C24_Witness ==
  /\ pc = "done" /\ size = MaxSize /\ Len(calls) = MaxSize + 1
  /\ "z" \in DOMAIN stoi /\ \A k \in 1..Len(start) : start[k] # "z"
  /\ \E k \in 2..Len(calls) : calls[k].s # calls[2].s

RECURSIVE LabelsIn(_, _)
LabelsIn(dl, k) == IF k = 0 THEN 0 ELSE LabelsIn(dl, k - 1) + dl[k].n

\* C22 (SpecEpoch): at every point of train_epoch the batches processed are
\* the first ones of the loader, each once and in order; with a positive
\* epoch_size E no batch is processed once count > E, the loop stops right
\* after the first batch that brings count above E, and count stays within
\* E plus the size of that batch; with epoch_size None or 0 the loop ends
\* only when every batch was processed.
C22_Limit ==
  ep.pc # "idle" =>
    LET dl == ep.dataloader
        E  == ep.epoch_size
        p  == Len(ep.seen)
    IN  /\ ep.seen = [k \in 1..p |-> k]
        /\ p <= Len(dl)
        /\ (E.set /\ E.val > 0) =>
             /\ \A k \in 1..(p - 1) : LabelsIn(dl, k) <= E.val
             /\ p >= 1 => LabelsIn(dl, p) <= E.val + dl[p].n
             /\ ep.pc = "loop" => LabelsIn(dl, p) <= E.val
             /\ ep.pc \in {"after", "returned"} =>
                  (p = Len(dl) \/ LabelsIn(dl, p) > E.val)
        /\ ~(E.set /\ E.val > 0) =>
             (ep.pc \in {"after", "returned", "failed"} => p = Len(dl))

\* C22 (SpecEpoch), the whole claim: the limit above holds throughout and
\* train_epoch terminates on every finite data loader.
C22_EpochLimit == []C22_Limit /\ <>(ep.pc \in {"returned", "failed"})

C22_Witness ==
  /\ ep.pc = "returned" /\ ep.epoch_size.set /\ ep.epoch_size.val = 2
  /\ Len(ep.seen) = 2 /\ Len(ep.dataloader) = 3
  /\ ep.count = 3

\* C29 (SpecEpoch): after every processed batch count is the number of
\* labels seen so far and 0 <= acc <= count; a progress line was printed
\* after exactly the batches whose number is a multiple of report_freq;
\* when at least one batch was processed train_epoch returns
\* (total_loss/count, acc/count) with 0 <= acc <= count and count > 0.
C29_EpochTotals ==
  ep.pc # "idle" =>
    /\ ep.i = Len(ep.seen)
    /\ ep.count = LabelsIn(ep.dataloader, ep.i)
    /\ 0 <= ep.acc /\ ep.acc <= ep.count
    /\ \A k \in 1..ep.i :
         Cardinality({n \in 1..Len(ep.printed) : ep.printed[n].i = k}) =
           (IF k % ep.report_freq = 0 THEN 1 ELSE 0)
    /\ \A n \in 1..Len(ep.printed) :
         /\ ep.printed[n].i \in 1..ep.i
         /\ ep.printed[n].count = LabelsIn(ep.dataloader, ep.printed[n].i)
    /\ ep.pc = "failed" => ep.i = 0
    /\ ep.pc = "returned" =>
         /\ ep.ret = [loss |-> ep.total_loss, acc |-> ep.acc, count |-> ep.count]
         /\ ep.ret.count > 0 /\ 0 <= ep.ret.acc /\ ep.ret.acc <= ep.ret.count

C29_Witness ==
  /\ ep.pc = "returned" /\ ep.i = 3 /\ ep.report_freq = 2
  /\ Len(ep.printed) = 1 /\ ep.printed[1].i = 2
  /\ 0 < ep.ret.acc /\ ep.ret.acc < ep.ret.count /\ ep.ret.count > ep.i

\* The id a token has in the word vocabulary, 0 for a token it does not hold.
WordIdOf(tok) ==
  IF \E j \in 1..Len(WordItos) : WordItos[j] = tok
    THEN (CHOOSE j \in 1..Len(WordItos) : WordItos[j] = tok) - 1
    ELSE 0

RECURSIVE BowSum(_, _)
BowSum(res, n) == IF n = 0 THEN 0 ELSE BowSum(res, n - 1) + res[n - 1]

\* C23 (SpecBow): to_bow(text, n) returns a vector of length n whose
\* element i is the number of tokens of text with id i; tokens with an id
\* >= n are dropped, tokens not in the vocabulary are counted at index 0,
\* and the elements sum to the number of tokens with id < n.
C23_BagOfWords ==
  bow.pc = "returned" =>
    LET toks == tokenizer(bow.text)
        n    == bow.bow_vocab_size
    IN  /\ DOMAIN bow.res = 0..(n - 1)
        /\ \A j \in 0..(n - 1) :
             bow.res[j] = Cardinality({k \in 1..Len(toks) : WordIdOf(toks[k]) = j})
        /\ BowSum(bow.res, n) = Cardinality({k \in 1..Len(toks) : WordIdOf(toks[k]) < n})

C23_Witness ==
  /\ bow.pc = "returned" /\ bow.bow_vocab_size = 3
  /\ bow.text = <<"b", "b", " ", "A">>
  /\ bow.res[0] = 1 /\ bow.res[2] = 1

\* The ids of the tokens of a text, from the word vocabulary list.
WordIds(x) == [k \in 1..Len(tokenizer(x)) |-> WordIdOf(tokenizer(x)[k])]

====
